---- MODULE Spec2Model ----
(***************************************************************************)
(* Model of emeals_getter: get_urls (src/main.rs) spawns one thread per    *)
(* URL; each thread runs process_url, which fetches the page, appends all  *)
(* ingredient items to the shared ingredients vector under its mutex, then *)
(* takes the recipes mutex and, while holding it, runs                     *)
(* latex_recipes::get_recipe and pushes the fragment.  After joining every *)
(* thread, get_urls writes the two output files.                           *)
(*                                                                         *)
(* Every element of the two shared vectors carries a provenance tag `src`  *)
(* (the index of the URL whose thread pushed it); the tag is bookkeeping   *)
(* of the model and is not part of the string the program stores.          *)
(***************************************************************************)
EXTENDS Integers, Sequences, FiniteSets, TLC

\* Number of lines in the URL file (length of `urls` in get_urls).
NumUrls == 2

Urls == 1..NumUrls

\* "no thread": value of a mutex holder when the mutex is free.
NoTask == 0

\* The orchestrator thread (get_urls) as a mutex holder.
Orch == NumUrls + 1

------------------------------------------------------------------------------
(* Pages.  A page is what Document::from_read yields, reduced to the       *)
(* elements the selectors of the program look at.                          *)

\* A, no side dish, with an image whose src has a final path segment.
PagePlain ==
    [hasTitle |-> TRUE, title |-> "A", hasSide |-> FALSE, sideTitle |-> "",
     hasImg |-> TRUE, imgSrc |-> <<"h", "/", "a">>, times |-> <<"10m">>,
     mainIng |-> <<"eggs", "milk">>, mainIns |-> <<"mix">>,
     sideIng |-> <<>>, sideIns |-> <<>>]

\* B, with a side title and a side dish section, no image element.
PageSide ==
    [hasTitle |-> TRUE, title |-> "B", hasSide |-> TRUE, sideTitle |-> "Side Salad",
     hasImg |-> FALSE, imgSrc |-> <<>>, times |-> <<>>,
     mainIng |-> <<"flour">>, mainIns |-> <<"bake">>,
     sideIng |-> <<"butter">>, sideIns |-> <<"toss">>]

\* A page without a mainTitle element (but with ingredient items).
PageNoTitle ==
    [hasTitle |-> FALSE, title |-> "", hasSide |-> FALSE, sideTitle |-> "",
     hasImg |-> FALSE, imgSrc |-> <<>>, times |-> <<>>,
     mainIng |-> <<"eggs">>, mainIns |-> <<>>,
     sideIng |-> <<>>, sideIns |-> <<>>]

\* A page whose image src ends with a slash.
PageSlash ==
    [hasTitle |-> TRUE, title |-> "D", hasSide |-> FALSE, sideTitle |-> "",
     hasImg |-> TRUE, imgSrc |-> <<"h", "/">>, times |-> <<"5m">>,
     mainIng |-> <<"rice">>, mainIns |-> <<"boil">>,
     sideIng |-> <<>>, sideIns |-> <<>>]

\* A page with a side dish section holding items but no sideTitle element.
PageOrphanSide ==
    [hasTitle |-> TRUE, title |-> "E", hasSide |-> FALSE, sideTitle |-> "",
     hasImg |-> FALSE, imgSrc |-> <<>>, times |-> <<>>,
     mainIng |-> <<"eggs">>, mainIns |-> <<"fry">>,
     sideIng |-> <<"salt">>, sideIns |-> <<"season">>]

\* A page with a sideTitle element and no items in its side dish section.
PageEmptySide ==
    [hasTitle |-> TRUE, title |-> "F", hasSide |-> TRUE, sideTitle |-> "Bread",
     hasImg |-> FALSE, imgSrc |-> <<>>, times |-> <<>>,
     mainIng |-> <<"soup">>, mainIns |-> <<"heat">>,
     sideIng |-> <<>>, sideIns |-> <<>>]

Pages == {PagePlain, PageSide, PageNoTitle, PageSlash, PageOrphanSide, PageEmptySide}

------------------------------------------------------------------------------
(* Pure functions of the program.                                          *)

\* Index of the first "/" in s, or 0.
RECURSIVE FirstSlash(_, _)
FirstSlash(s, i) ==
    IF i > Len(s) THEN 0
    ELSE IF s[i] = "/" THEN i
    ELSE FirstSlash(s, i + 1)

\* url.split("/").collect(): the pieces between slashes; never empty.
RECURSIVE Split(_)
Split(s) ==
    LET i == FirstSlash(s, 1) IN
    IF i = 0 THEN <<s>>
    ELSE <<SubSeq(s, 1, i - 1)>> \o Split(SubSeq(s, i + 1, Len(s)))

\* split_url.last(): <<TRUE, piece>> for Some(piece), <<FALSE, <<>>>> for None.
LastPiece(pieces) ==
    IF Len(pieces) = 0 THEN <<FALSE, <<>>>>
    ELSE <<TRUE, pieces[Len(pieces)]>>

\* get_image_url: <<TRUE, src>> for Some(src), <<FALSE, <<>>>> for None.
get_image_url(p) ==
    IF p.hasImg THEN <<TRUE, p.imgSrc>> ELSE <<FALSE, <<>>>>

\* document.find(Class("ingredients").descendant(Name("li"))): every li below
\* any element of class "ingredients", in document order (the main section
\* precedes the side dish section on a page).
all_ingredients(p) == p.mainIng \o p.sideIng

Line(kind, arg) == [kind |-> kind, arg |-> arg]

Lines(kind, items) == [i \in 1..Len(items) |-> Line(kind, <<items[i]>>)]

\* File name of the image get_recipe saves, when the page has an image.
image_filename(p) == LastPiece(Split(get_image_url(p)[2]))[2]

\* TRUE when get_recipe takes the branch that downloads an image.
WantsImage(p) ==
    get_image_url(p)[1] /\ LastPiece(Split(get_image_url(p)[2]))[1]

\* A get_recipe that emits the side dish block when the side dish section
\* has ingredient items, whether or not the page has a side title.
recipe_latex_side_by_items(p) ==
    (IF WantsImage(p) THEN <<Line("includegraphics", image_filename(p))>> ELSE <<>>)
    \o <<Line("Large", <<p.title>>)>>
    \o (IF p.hasSide THEN <<Line("large", <<p.sideTitle>>)>> ELSE <<>>)
    \o Lines("time", p.times)
    \o <<Line("heading", <<"Ingredients">>)>>
    \o Lines("item", p.mainIng)
    \o <<Line("heading", <<"Instructions">>)>>
    \o Lines("enum", p.mainIns)
    \o (IF p.sideIng # <<>>
        THEN <<Line("heading", <<"Side Dish Ingredients">>)>>
             \o Lines("item", p.sideIng)
             \o <<Line("heading", <<"Side Dish Instructions">>)>>
             \o Lines("enum", p.sideIns)
        ELSE <<>>)

\* The string get_recipe returns on success, as a sequence of lines.
recipe_latex(p) ==
    (IF WantsImage(p) THEN <<Line("includegraphics", image_filename(p))>> ELSE <<>>)
    \o <<Line("Large", <<p.title>>)>>
    \o (IF p.hasSide THEN <<Line("large", <<p.sideTitle>>)>> ELSE <<>>)
    \o Lines("time", p.times)
    \o <<Line("heading", <<"Ingredients">>)>>
    \o Lines("item", p.mainIng)
    \o <<Line("heading", <<"Instructions">>)>>
    \o Lines("enum", p.mainIns)
    \o (IF p.hasSide
        THEN <<Line("heading", <<"Side Dish Ingredients">>)>>
             \o Lines("item", p.sideIng)
             \o <<Line("heading", <<"Side Dish Instructions">>)>>
             \o Lines("enum", p.sideIns)
        ELSE <<>>)

------------------------------------------------------------------------------
(* State.                                                                  *)

VARIABLES
    page,         \* page[u]: what a successful fetch of URL u parses to
    taskPc,       \* taskPc[u]: position of the thread spawned for URL u
    taskErr,      \* taskErr[u]: the Err value process_url returned, or "none"
    ingIdx,       \* ingIdx[u]: number of items thread u has pushed so far
    ingredients,  \* the shared Vec behind the `ingredients` mutex
    recipes,      \* the shared Vec behind the `recipes` mutex
    ingLock,      \* holder of the ingredients mutex, or NoTask
    recLock,      \* holder of the recipes mutex, or NoTask
    ingPoisoned,  \* poison flag of the ingredients mutex
    recPoisoned,  \* poison flag of the recipes mutex
    images,       \* image files created in the dated directory
    log,          \* what has been printed on stderr (as a set of entries)
    orchPc,       \* position of get_urls
    orchIdx,      \* loop index of get_urls (spawn loop, then join loop)
    result,       \* what get_urls returned: "none" while running, "Ok", "Err"
    orchErr,      \* the reason of the Err get_urls returned, or "none"
    groceries,    \* the file <date>/groceries.txt
    recipesFile   \* the file <date>/recipes.tex

vars == <<page, taskPc, taskErr, ingIdx, ingredients, recipes, ingLock, recLock,
          ingPoisoned, recPoisoned, images, log, orchPc, orchIdx, result,
          orchErr, groceries, recipesFile>>

taskVars == <<taskPc, taskErr, ingIdx>>
orchVars == <<orchPc, orchIdx, result, orchErr>>
fileVars == <<groceries, recipesFile>>
ingMutex == <<ingLock, ingPoisoned>>
recMutex == <<recLock, recPoisoned>>

\* A thread that has finished: its closure returned or it panicked.
Terminal == {"ok", "err", "panicked"}

NoFile == [exists |-> FALSE, complete |-> FALSE, lines |-> <<>>]

Init ==
    /\ page \in [Urls -> Pages]
    /\ taskPc = [u \in Urls |-> "unspawned"]
    /\ taskErr = [u \in Urls |-> "none"]
    /\ ingIdx = [u \in Urls |-> 0]
    /\ ingredients = <<>>
    /\ recipes = <<>>
    /\ ingLock = NoTask
    /\ recLock = NoTask
    /\ ingPoisoned = FALSE
    /\ recPoisoned = FALSE
    /\ images = {}
    /\ log = {}
    /\ orchPc = "spawn"
    /\ orchIdx = 1
    /\ result = "none"
    /\ orchErr = "none"
    /\ groceries = NoFile
    /\ recipesFile = NoFile

------------------------------------------------------------------------------
(* Mutex and task boundary.                                                *)

\* A lock() that does not wait for the holder to release.
LockFreeNoWait(holder) == TRUE

\* Mutex::lock blocks until no thread holds the mutex.
LockFree(holder) == holder = NoTask

\* Mutex::lock returns Err(PoisonError) when the mutex is poisoned.
LockResult(poisoned) == IF poisoned THEN "Err" ELSE "Ok"

\* The entry the closure of thread::spawn prints when process_url returns
\* Err(err): the closure's parameter is `_`, only the URL is printed.
ErrorEntry(u, err) == [text |-> "Error processing URL", url |-> u, reason |-> "none"]

\* A warning printed by get_recipe.
WarnEntry(u, text) == [text |-> text, url |-> u, reason |-> "none"]

\* A closure that runs process_url again when it returned Err.
FailRetry(u, err) ==
    /\ taskPc' = [taskPc EXCEPT ![u] = "fetch"]
    /\ taskErr' = [taskErr EXCEPT ![u] = err]
    /\ log' = log \cup {ErrorEntry(u, err)}

\* process_url returns Err(err) in thread u: the closure logs it and returns.
Fail(u, err) ==
    /\ taskPc' = [taskPc EXCEPT ![u] = "err"]
    /\ taskErr' = [taskErr EXCEPT ![u] = err]
    /\ log' = log \cup {ErrorEntry(u, err)}

------------------------------------------------------------------------------
(* process_url, one thread per URL.                                        *)

\* Build the client, send the GET, parse the body; each `?` may return Err.
Fetch(u) ==
    /\ taskPc[u] = "fetch"
    /\ \E ok \in BOOLEAN :
          IF ok
          THEN /\ taskPc' = [taskPc EXCEPT ![u] = "lock_ing"]
               /\ UNCHANGED <<taskErr, log>>
          ELSE Fail(u, "fetch")
    /\ UNCHANGED <<page, ingIdx, ingredients, recipes, ingMutex, recMutex, images,
                   orchVars, fileVars>>

\* A process_url that goes to the recipes step without appending its
\* ingredients first.
IngLockSkipped(u) ==
    /\ taskPc[u] = "lock_ing"
    /\ taskPc' = [taskPc EXCEPT ![u] = "lock_rec"]
    /\ UNCHANGED <<page, taskErr, log, ingLock, ingIdx, ingredients, recipes,
                   ingPoisoned, recMutex, images, orchVars, fileVars>>

\* ingredients.lock()
IngLock(u) ==
    /\ taskPc[u] = "lock_ing"
    /\ LockFree(ingLock)
    /\ IF LockResult(ingPoisoned) = "Ok"
       THEN /\ ingLock' = u
            /\ taskPc' = [taskPc EXCEPT ![u] = "push_ing"]
            /\ UNCHANGED <<taskErr, log>>
       ELSE /\ Fail(u, "lock_ing")
            /\ UNCHANGED ingLock
    /\ UNCHANGED <<page, ingIdx, ingredients, recipes, ingPoisoned, recMutex, images,
                   orchVars, fileVars>>

\* One iteration of `for ingredient in all_ingredients`: push the next item.
\* Vec::push can panic (capacity overflow); the unwinding thread drops the
\* guard, which poisons the mutex.
IngPush(u) ==
    /\ taskPc[u] = "push_ing"
    /\ ingIdx[u] < Len(all_ingredients(page[u]))
    /\ \E panics \in BOOLEAN :
          IF panics
          THEN /\ taskPc' = [taskPc EXCEPT ![u] = "panicked"]
               /\ ingLock' = IF ingLock = u THEN NoTask ELSE ingLock
               /\ ingPoisoned' = TRUE
               /\ UNCHANGED <<ingIdx, ingredients>>
          ELSE /\ ingredients' = Append(ingredients,
                        [src |-> u, text |-> all_ingredients(page[u])[ingIdx[u] + 1]])
               /\ ingIdx' = [ingIdx EXCEPT ![u] = @ + 1]
               /\ UNCHANGED <<taskPc, ingMutex>>
    /\ UNCHANGED <<page, taskErr, recipes, recMutex, images, log, orchVars, fileVars>>

\* A guard bound for the rest of process_url: still held after the match.
IngGuardKept(u) == u

\* Holder of the ingredients mutex once thread u leaves the first match:
\* the guard bound in the Ok arm is dropped at the end of the arm.
IngGuardAfterMatch(u) == NoTask

\* The loop is over: leave the match, the guard is dropped.
IngUnlock(u) ==
    /\ taskPc[u] = "push_ing"
    /\ ingIdx[u] = Len(all_ingredients(page[u]))
    /\ taskPc' = [taskPc EXCEPT ![u] = "lock_rec"]
    /\ ingLock' = IF ingLock = u THEN IngGuardAfterMatch(u) ELSE ingLock
    /\ UNCHANGED <<page, taskErr, ingIdx, ingredients, recipes, ingPoisoned, recMutex,
                   images, log, orchVars, fileVars>>

\* recipes.lock()
RecLock(u) ==
    /\ taskPc[u] = "lock_rec"
    /\ LockFree(recLock)
    /\ IF LockResult(recPoisoned) = "Ok"
       THEN /\ recLock' = u
            /\ taskPc' = [taskPc EXCEPT ![u] = "get_recipe"]
            /\ UNCHANGED <<taskErr, log>>
       ELSE /\ Fail(u, "lock_rec")
            /\ UNCHANGED recLock
    /\ UNCHANGED <<page, ingIdx, ingredients, recipes, ingMutex, recPoisoned, images,
                   orchVars, fileVars>>

\* A guard that is leaked: the mutex stays locked after the thread is gone.
ReleasedNever(holder, u) == holder

\* Thread u stops holding whatever mutex it holds when process_url returns
\* or unwinds.
Released(holder, u) == IF holder = u THEN NoTask ELSE holder

\* process_url returns Err(err) from inside the second match (get_recipe(..)?).
FailInGetRecipe(u, err) ==
    /\ Fail(u, err)
    /\ recLock' = Released(recLock, u)
    /\ ingLock' = Released(ingLock, u)

\* get_recipe up to the image: create_dir_all, the title, the image URL and
\* its file name, File::create of the image file.
GetRecipeStart(u) ==
    /\ taskPc[u] = "get_recipe"
    /\ \E dirOk \in BOOLEAN, createOk \in BOOLEAN :
          LET p == page[u]
              img == get_image_url(p)
              last == LastPiece(Split(img[2])) IN
          IF ~dirOk
          THEN /\ FailInGetRecipe(u, "mkdir")
               /\ UNCHANGED images
          ELSE IF ~p.hasTitle
          THEN /\ FailInGetRecipe(u, "title")
               /\ UNCHANGED images
          ELSE IF ~img[1]
          THEN /\ taskPc' = [taskPc EXCEPT ![u] = "render"]
               /\ log' = log \cup {WarnEntry(u, "WARNING: No image for recipe")}
               /\ UNCHANGED <<taskErr, images, ingLock, recLock>>
          ELSE IF ~last[1]
          THEN /\ taskPc' = [taskPc EXCEPT ![u] = "render"]
               /\ log' = log \cup {WarnEntry(u, "WARNING: Unable to figure out the filename")}
               /\ UNCHANGED <<taskErr, images, ingLock, recLock>>
          \* File::create("<date>/<name>"): an empty name is the directory itself
          ELSE IF last[2] = <<>> \/ ~createOk
          THEN /\ FailInGetRecipe(u, "image_create")
               /\ UNCHANGED images
          ELSE /\ taskPc' = [taskPc EXCEPT ![u] = "download"]
               /\ images' = images \cup {last[2]}
               /\ UNCHANGED <<taskErr, log, ingLock, recLock>>
    /\ UNCHANGED <<page, ingIdx, ingredients, recipes, ingPoisoned, recPoisoned,
                   orchVars, fileVars>>

\* reqwest::blocking::get(url_copy)?.bytes()? and copy(..)?: the download
\* succeeds, returns Err, or panics (reqwest::blocking::get panics when its
\* client cannot be built); a panic unwinds through the recipes guard.
Download(u) ==
    /\ taskPc[u] = "download"
    /\ \E outcome \in {"ok", "err", "panic"} :
          CASE outcome = "ok" ->
                 /\ taskPc' = [taskPc EXCEPT ![u] = "render"]
                 /\ UNCHANGED <<taskErr, log, ingLock, recMutex>>
            [] outcome = "err" ->
                 /\ FailInGetRecipe(u, "image_get")
                 /\ UNCHANGED recPoisoned
            [] outcome = "panic" ->
                 /\ taskPc' = [taskPc EXCEPT ![u] = "panicked"]
                 /\ recLock' = Released(recLock, u)
                 /\ ingLock' = Released(ingLock, u)
                 /\ recPoisoned' = (recPoisoned \/ recLock = u)
                 /\ UNCHANGED <<taskErr, log>>
    /\ UNCHANGED <<page, ingIdx, ingredients, recipes, ingPoisoned, images,
                   orchVars, fileVars>>

\* The rest of get_recipe builds the string and returns Ok(recipe_latex);
\* recipe.push(..) stores it, the guard is dropped, process_url returns Ok(()).
PushRecipe(u) ==
    /\ taskPc[u] = "render"
    /\ recipes' = Append(recipes, [src |-> u, latex |-> recipe_latex(page[u])])
    /\ taskPc' = [taskPc EXCEPT ![u] = "ok"]
    /\ recLock' = Released(recLock, u)
    /\ ingLock' = Released(ingLock, u)
    /\ UNCHANGED <<page, taskErr, ingIdx, ingredients, ingPoisoned, recPoisoned,
                   images, log, orchVars, fileVars>>

------------------------------------------------------------------------------
(* get_urls, the orchestrator.                                             *)

\* A spawn loop that waits for the thread it has just started before it
\* starts the next one.
SpawnThenWait ==
    /\ orchPc = "spawn"
    /\ taskPc' = [taskPc EXCEPT ![orchIdx] = "fetch"]
    /\ orchPc' = "join"
    /\ orchIdx' = orchIdx
    /\ UNCHANGED <<page, taskErr, ingIdx, ingredients, recipes, ingMutex, recMutex,
                   images, log, result, orchErr, fileVars>>

\* One iteration of `for url in urls`: thread::spawn starts the thread.
Spawn ==
    /\ orchPc = "spawn"
    /\ taskPc' = [taskPc EXCEPT ![orchIdx] = "fetch"]
    /\ IF orchIdx = NumUrls
       THEN orchPc' = "join" /\ orchIdx' = 1
       ELSE orchPc' = "spawn" /\ orchIdx' = orchIdx + 1
    /\ UNCHANGED <<page, taskErr, ingIdx, ingredients, recipes, ingMutex, recMutex,
                   images, log, result, orchErr, fileVars>>

\* A join that returns as soon as the thread has been started.
JoinReadyStarted(u) == taskPc[u] # "unspawned"

\* JoinHandle::join returns once the thread has finished.
JoinReady(u) == taskPc[u] \in Terminal

\* A join loop that returns Err from get_urls when the thread did not succeed.
JoinNextFailFast(u) ==
    IF taskPc[u] # "ok"
    THEN [pc |-> "done", idx |-> u, result |-> "Err", err |-> "task"]
    ELSE IF u = NumUrls
    THEN [pc |-> "lock_ing", idx |-> u, result |-> "none", err |-> "none"]
    ELSE [pc |-> "join", idx |-> u + 1, result |-> "none", err |-> "none"]

\* What get_urls does after task.join() of thread u returned: both arms of
\* the match fall through to the next iteration, whatever the thread did.
JoinNext(u) ==
    IF u = NumUrls
    THEN [pc |-> "lock_ing", idx |-> u, result |-> "none", err |-> "none"]
    ELSE [pc |-> "join", idx |-> u + 1, result |-> "none", err |-> "none"]

\* One iteration of `for task in tasks`: join, and report a panicked thread.
Join ==
    /\ orchPc = "join"
    /\ JoinReady(orchIdx)
    /\ log' = IF taskPc[orchIdx] = "panicked"
              THEN log \cup {[text |-> "A task join() failed", url |-> 0, reason |-> "panic"]}
              ELSE log
    /\ LET n == JoinNext(orchIdx) IN
          /\ orchPc' = n.pc
          /\ orchIdx' = n.idx
          /\ result' = n.result
          /\ orchErr' = n.err
    /\ UNCHANGED <<page, taskVars, ingredients, recipes, ingMutex, recMutex, images,
                   fileVars>>

\* A match on lock() whose Err arm recovers the guard and carries on.
OrchOnLockRecover(poisoned, okPc, errName) ==
    [pc |-> okPc, result |-> "none", err |-> "none"]

\* The match on a lock() of get_urls: the Err arm returns Err from get_urls.
OrchOnLock(poisoned, okPc, errName) ==
    IF LockResult(poisoned) = "Err"
    THEN [pc |-> "done", result |-> "Err", err |-> errName]
    ELSE [pc |-> okPc, result |-> "none", err |-> "none"]

\* ingredients.lock() in get_urls
OrchIngLock ==
    /\ orchPc = "lock_ing"
    /\ LockFree(ingLock)
    /\ LET n == OrchOnLock(ingPoisoned, "write_ing", "lock_ing") IN
          /\ orchPc' = n.pc
          /\ result' = n.result
          /\ orchErr' = n.err
          /\ ingLock' = IF n.pc = "write_ing" THEN Orch ELSE ingLock
    /\ UNCHANGED <<page, taskVars, ingredients, recipes, ingPoisoned, recMutex, images,
                   log, orchIdx, fileVars>>

\* The content of groceries.txt: one line per element of the vector.
GroceryLines(v) == [i \in 1..Len(v) |-> v[i].text]

\* The content of recipes.tex between DOCUMENT_BEGIN and DOCUMENT_END.
RecipeLines(v) == [i \in 1..Len(v) |-> v[i].latex]

\* The file a writer leaves: nothing when create_dir_all or File::create
\* fails, a prefix when a write_all fails, all lines otherwise.
Written(outcome, lines, k) ==
    CASE outcome = "ok" -> [exists |-> TRUE, complete |-> TRUE, lines |-> lines]
      [] outcome = "partial" -> [exists |-> TRUE, complete |-> FALSE,
                                 lines |-> SubSeq(lines, 1, k)]
      [] outcome = "nofile" -> NoFile

\* write_ingredients(ingredients.to_vec())?
WriteIngredients ==
    /\ orchPc = "write_ing"
    /\ \E outcome \in {"ok", "partial", "nofile"}, k \in 0..Len(ingredients) :
          /\ outcome # "partial" => k = 0
          /\ groceries' = Written(outcome, GroceryLines(ingredients), k)
          /\ IF outcome = "ok"
             THEN orchPc' = "lock_rec" /\ UNCHANGED <<result, orchErr>>
             ELSE orchPc' = "done" /\ result' = "Err" /\ orchErr' = "io_ing"
    /\ ingLock' = Released(ingLock, Orch)
    /\ UNCHANGED <<page, taskVars, ingredients, recipes, ingPoisoned, recMutex, images,
                   log, orchIdx, recipesFile>>

\* recipes.lock() in get_urls
OrchRecLock ==
    /\ orchPc = "lock_rec"
    /\ LockFree(recLock)
    /\ LET n == OrchOnLock(recPoisoned, "write_rec", "lock_rec") IN
          /\ orchPc' = n.pc
          /\ result' = n.result
          /\ orchErr' = n.err
          /\ recLock' = IF n.pc = "write_rec" THEN Orch ELSE recLock
    /\ UNCHANGED <<page, taskVars, ingredients, recipes, ingMutex, recPoisoned, images,
                   log, orchIdx, fileVars>>

\* latex_recipes::write_recipes(recipes.to_vec())? and the final Ok(()).
WriteRecipes ==
    /\ orchPc = "write_rec"
    /\ \E outcome \in {"ok", "partial", "nofile"}, k \in 0..Len(recipes) :
          /\ outcome # "partial" => k = 0
          /\ recipesFile' = Written(outcome, RecipeLines(recipes), k)
          /\ orchPc' = "done"
          /\ IF outcome = "ok"
             THEN result' = "Ok" /\ UNCHANGED orchErr
             ELSE result' = "Err" /\ orchErr' = "io_rec"
    /\ recLock' = Released(recLock, Orch)
    /\ UNCHANGED <<page, taskVars, ingredients, recipes, ingMutex, recPoisoned, images,
                   log, orchIdx, groceries>>

------------------------------------------------------------------------------

Next ==
    \/ Spawn
    \/ Join
    \/ OrchIngLock
    \/ WriteIngredients
    \/ OrchRecLock
    \/ WriteRecipes
    \/ \E u \in Urls : Fetch(u)
    \/ \E u \in Urls : IngLock(u)
    \/ \E u \in Urls : IngPush(u)
    \/ \E u \in Urls : IngUnlock(u)
    \/ \E u \in Urls : RecLock(u)
    \/ \E u \in Urls : GetRecipeStart(u)
    \/ \E u \in Urls : Download(u)
    \/ \E u \in Urls : PushRecipe(u)

Spec == Init /\ [][Next]_vars

------------------------------------------------------------------------------
(* Vocabulary of the properties.                                           *)

\* The items thread u has put into the ingredients vector, in vector order.
IngBlock(u) ==
    LET mine == SelectSeq(ingredients, LAMBDA e : e.src = u) IN
    [i \in 1..Len(mine) |-> mine[i].text]

\* The fragments thread u has put into the recipes vector.
FragsOf(u) ==
    LET mine == SelectSeq(recipes, LAMBDA e : e.src = u) IN
    [i \in 1..Len(mine) |-> mine[i].latex]

HasAppended(u) == IngBlock(u) # <<>> \/ FragsOf(u) # <<>>

AllTerminal == \A u \in Urls : taskPc[u] \in Terminal

\* get_urls has left the join loop and reads (or has read) the vectors.
ReadStages == {"lock_ing", "write_ing", "lock_rec", "write_rec", "done"}

LockErrs == {"lock_ing", "lock_rec"}

\* Every thread's pushes sit next to each other in the ingredients vector.
Contiguous ==
    \A i \in 1..Len(ingredients) : \A k \in i..Len(ingredients) :
        ingredients[i].src = ingredients[k].src
            => \A j \in i..k : ingredients[j].src = ingredients[i].src

------------------------------------------------------------------------------
(* C1..C10                                                                 *)

\* C1 (as claimed): once every thread is joined, if each URL either succeeded
\* or failed by a fetch failure or a missing title, the ingredients vector
\* holds exactly the items of the successful URLs and the recipes vector
\* exactly their fragments; a failed URL has nothing in either.
C1_Containment ==
    (/\ orchPc \in ReadStages
     /\ \A u \in Urls : \/ taskPc[u] = "ok"
                        \/ taskPc[u] = "err" /\ taskErr[u] \in {"fetch", "title"})
    => \A u \in Urls :
          IF taskPc[u] = "ok"
          THEN /\ IngBlock(u) = all_ingredients(page[u])
               /\ FragsOf(u) = <<recipe_latex(page[u])>>
          ELSE ~HasAppended(u)

\* C2 (as claimed): a thread whose page has no title never succeeds, and once
\* it has failed with the missing-title error nothing of it is in the
\* ingredients vector or in the recipes vector.
C2_MissingTitleContributesNothing ==
    \A u \in Urls :
        ~page[u].hasTitle =>
            /\ taskPc[u] # "ok"
            /\ taskErr[u] = "title" => ~HasAppended(u)

\* C3: in every state the ingredients vector consists of one contiguous block
\* per thread, each block being the items that thread has pushed so far in
\* page order (nothing lost, duplicated or reordered, equal items of
\* different URLs all kept), and the recipes vector holds exactly one
\* fragment for every thread that returned Ok and none for any other.
C3_AggregatorAtomicity ==
    /\ Contiguous
    /\ \A u \in Urls :
          /\ IngBlock(u) = SubSeq(all_ingredients(page[u]), 1, ingIdx[u])
          /\ taskPc[u] \in {"lock_rec", "get_recipe", "download", "render", "ok"}
                => IngBlock(u) = all_ingredients(page[u])
          /\ FragsOf(u) = IF taskPc[u] = "ok" THEN <<recipe_latex(page[u])>> ELSE <<>>

\* C3 witness: all threads are done, two URLs each put items into the vector,
\* and the thread spawned last got its block in first.
C3_Witness ==
    /\ AllTerminal
    /\ Len(ingredients) >= 3
    /\ ingredients[1].src = NumUrls
    /\ \E i \in 1..Len(ingredients) : ingredients[i].src = 1
    /\ Len(recipes) >= 2

\* C4: whenever get_urls is at or past its first read of the vectors, every
\* thread is in a terminal state, and no step taken from there on changes
\* either vector.
C4_ReadAfterAllJoined ==
    [][orchPc' \in ReadStages =>
          /\ \A u \in Urls : taskPc'[u] \in Terminal
          /\ orchPc \in ReadStages => (ingredients' = ingredients /\ recipes' = recipes)]_vars

\* C4 witness: get_urls is writing the shopping list after one thread
\* returned Ok and another failed.
C4_Witness ==
    /\ orchPc = "write_ing"
    /\ \E u, v \in Urls : taskPc[u] = "ok" /\ taskPc[v] \in {"err", "panicked"}
    /\ Len(ingredients) > 0

\* C5: when get_urls has returned, every thread reached a terminal state, and
\* unless a mutex is poisoned or an output file could not be written the
\* result is Ok and the recipe document holds the fragment of every URL that
\* succeeded, however many other URLs failed.
C5_FailureIsolated ==
    orchPc = "done" =>
        /\ AllTerminal
        /\ (~ingPoisoned /\ ~recPoisoned /\ orchErr \notin {"io_ing", "io_rec"})
              => /\ result = "Ok"
                 /\ recipesFile.complete
                 /\ \A u \in Urls : taskPc[u] = "ok" =>
                        \E i \in 1..Len(recipesFile.lines) :
                            recipesFile.lines[i] = recipe_latex(page[u])

\* C5 witness: get_urls returned Ok although one URL failed to fetch or had
\* no title, and another URL succeeded.
C5_Witness ==
    /\ orchPc = "done"
    /\ result = "Ok"
    /\ \E u, v \in Urls :
          /\ taskPc[u] = "err" /\ taskErr[u] \in {"fetch", "title"}
          /\ taskPc[v] = "ok"

\* C6: when get_urls has returned and some lock acquisition failed, in a
\* thread or in get_urls itself, the result is Err; a run that returned Ok
\* had no failed lock acquisition and no poisoned mutex.
C6_LockFailureFatal ==
    orchPc = "done" =>
        /\ ((\E u \in Urls : taskErr[u] \in LockErrs) \/ orchErr \in LockErrs)
              => result = "Err"
        /\ result = "Ok" => ~ingPoisoned /\ ~recPoisoned

\* C6 witness: get_urls returned after a thread failed to acquire a mutex
\* and was logged as a failed URL.
C6_Witness ==
    /\ orchPc = "done"
    /\ \E u \in Urls : taskErr[u] \in LockErrs /\ ErrorEntry(u, taskErr[u]) \in log

\* C7 (as claimed): every failed URL has a log entry naming the URL and the
\* reason, and the entry for a missing title differs from the entry for a
\* fetch failure of the same URL.
C7_FailureLoggedWithReason ==
    \A u \in Urls :
        taskPc[u] = "err" =>
            /\ \E e \in log : e.url = u /\ e.reason = taskErr[u]
            /\ ErrorEntry(u, "title") # ErrorEntry(u, "fetch")

\* C8 (as claimed): a URL whose page has a title and an image src without a
\* final path segment, and whose thread got through fetch, both locks and the
\* directory creation, returns Ok with a fragment that has no image line, and
\* a warning about the file name is logged.
C8_SlashImageSkipped ==
    \A u \in Urls :
        (/\ page[u].hasTitle
         /\ page[u].hasImg
         /\ image_filename(page[u]) = <<>>
         /\ taskPc[u] \in {"ok", "err"}
         /\ taskErr[u] \notin {"fetch", "lock_ing", "lock_rec", "mkdir"})
        => /\ taskPc[u] = "ok"
           /\ Len(FragsOf(u)) = 1
           /\ \A i \in 1..Len(FragsOf(u)[1]) : FragsOf(u)[1][i].kind # "includegraphics"
           /\ WarnEntry(u, "WARNING: Unable to figure out the filename") \in log

\* C9: no thread holds the ingredients mutex and the recipes mutex at once.
C9_LocksIndependent ==
    \A u \in Urls \cup {Orch} : ~(ingLock = u /\ recLock = u)

\* C9 witness: one thread holds the ingredients mutex (pushing items) while
\* another holds the recipes mutex (inside get_recipe).
C9_Witness ==
    \E u, v \in Urls :
        /\ u # v
        /\ ingLock = u /\ taskPc[u] = "push_ing" /\ ingIdx[u] > 0
        /\ recLock = v /\ taskPc[v] \in {"get_recipe", "download"}

\* C10 (as claimed): a thread that has put anything into either vector has
\* fetched, found the title and finished the image step of rendering; a
\* thread that stopped earlier has put nothing into either vector.
C10_AppendOnlyAfterRender ==
    \A u \in Urls : HasAppended(u) => taskPc[u] \in {"render", "ok"}

------------------------------------------------------------------------------
(* C11..C18                                                                *)

\* Fragment f has a line of this kind and content.
HasLine(f, kind, arg) == \E i \in 1..Len(f) : f[i] = Line(kind, arg)

\* The lines of one kind in fragment f, in order, as their texts.
TextsOf(f, kind) ==
    LET sel == SelectSeq(f, LAMBDA l : l.kind = kind) IN
    [i \in 1..Len(sel) |-> sel[i].arg[1]]

\* C11: every fragment in the recipes vector has the side dish block (side
\* title heading, "Side Dish Ingredients" and "Side Dish Instructions" with
\* exactly the side items, possibly none) when its page has a side title, and
\* has no side heading and no side item when the page has no side title.
C11_SideBlockIffSideTitle ==
    \A i \in 1..Len(recipes) :
        LET f == recipes[i].latex
            p == page[recipes[i].src] IN
        IF p.hasSide
        THEN /\ HasLine(f, "large", <<p.sideTitle>>)
             /\ HasLine(f, "heading", <<"Side Dish Ingredients">>)
             /\ HasLine(f, "heading", <<"Side Dish Instructions">>)
             /\ TextsOf(f, "item") = p.mainIng \o p.sideIng
             /\ TextsOf(f, "enum") = p.mainIns \o p.sideIns
        ELSE /\ \A j \in 1..Len(f) : f[j].kind # "large"
             /\ ~HasLine(f, "heading", <<"Side Dish Ingredients">>)
             /\ ~HasLine(f, "heading", <<"Side Dish Instructions">>)
             /\ TextsOf(f, "item") = p.mainIng
             /\ TextsOf(f, "enum") = p.mainIns

\* C11 witness: the recipes vector holds the fragment of a page with side
\* items but no side title and the fragment of a page with a side title.
C11_Witness ==
    \E i, j \in 1..Len(recipes) :
        /\ page[recipes[i].src] = PageOrphanSide
        /\ page[recipes[j].src].hasSide

\* C12 (as claimed): the items a successful URL has put into the ingredients
\* vector are its main ingredients followed by its side ingredients, the
\* latter only when the page has a side title; they are the ingredient items
\* of that URL's fragment.
C12_ContributionMatchesFragment ==
    \A u \in Urls :
        taskPc[u] = "ok" =>
            /\ IngBlock(u) = page[u].mainIng
                             \o (IF page[u].hasSide THEN page[u].sideIng ELSE <<>>)
            /\ IngBlock(u) = TextsOf(FragsOf(u)[1], "item")

\* C13 (as claimed): a thread that holds the ingredients mutex or the recipes
\* mutex is not inside get_recipe: it is neither extracting or rendering nor
\* creating or downloading the image.
C13_NoRenderUnderLock ==
    \A u \in Urls :
        (ingLock = u \/ recLock = u) => taskPc[u] \notin {"get_recipe", "download"}

\* C14: while get_urls is in its spawn loop exactly the URLs before the loop
\* index have a thread and the next spawn never waits for anything; once the
\* loop is left (before the first join) every URL has its thread.
C14_EagerSpawn ==
    /\ orchPc = "spawn" =>
          /\ \A u \in Urls : taskPc[u] = "unspawned" <=> u >= orchIdx
          /\ ENABLED Spawn
    /\ orchPc # "spawn" => \A u \in Urls : taskPc[u] # "unspawned"

\* C14 witness: get_urls waits in its first join while every URL's thread is
\* running.
C14_Witness ==
    /\ orchPc = "join"
    /\ orchIdx = 1
    /\ \A u \in Urls : taskPc[u] \notin Terminal \cup {"unspawned"}

\* C15 (as claimed): when get_urls has returned Err because a mutex could not
\* be locked or an output directory or file could not be created (a write
\* that failed after its file was created is left aside), neither output
\* file exists; in particular groceries.txt does not exist when the recipes
\* mutex was poisoned or recipes.tex could not be created.
C15_NoOutputOnRunError ==
    (/\ orchPc = "done"
     /\ result = "Err"
     /\ ~(groceries.exists /\ ~groceries.complete)
     /\ ~(recipesFile.exists /\ ~recipesFile.complete))
    => ~groceries.exists /\ ~recipesFile.exists

\* C16: no step brings a thread back to the fetch once it has left it, a thread
\* whose process_url returned Err (a failed fetch included) is finished, a
\* finished thread never moves again nor adds to either vector, and no URL
\* ever has more than its page's items in the ingredients vector or more than
\* one fragment in the recipes vector.
C16_NoRetryNoDouble ==
    [][\A u \in Urls :
          /\ taskPc[u] \notin {"unspawned", "fetch"} => taskPc'[u] \notin {"unspawned", "fetch"}
          /\ taskErr'[u] # "none" => taskPc'[u] = "err"
          /\ taskPc[u] \in Terminal =>
                /\ taskPc'[u] = taskPc[u]
                /\ IngBlock(u)' = IngBlock(u)
                /\ FragsOf(u)' = FragsOf(u)
          /\ Len(IngBlock(u)') <= Len(all_ingredients(page[u]))
          /\ Len(FragsOf(u)') <= 1]_vars

\* C16 witness: one thread is finished after a failed fetch while another,
\* finished too, has its block and its fragment in the vectors.
C16_Witness ==
    \E u, v \in Urls :
        /\ taskPc[u] = "err" /\ taskErr[u] = "fetch" /\ ~HasAppended(u)
        /\ taskPc[v] = "ok" /\ Len(FragsOf(v)) = 1
        /\ IngBlock(v) = all_ingredients(page[v])

\* The program under a scheduler that lets some thread that can take a step
\* take one, every blocking call (fetch, download, file operation) returning.
FairSpec == Spec /\ WF_vars(Next)

\* C17: every run reaches the state where get_urls has returned Ok or Err,
\* every thread is in a terminal state and neither mutex is held.
C17_Terminates ==
    <>(/\ orchPc = "done"
       /\ result \in {"Ok", "Err"}
       /\ AllTerminal
       /\ ingLock = NoTask
       /\ recLock = NoTask)

\* C17 witness: get_urls has returned after one thread panicked while it held
\* a mutex and another thread had to fail on the poisoned mutex.
C17_Witness ==
    /\ orchPc = "done"
    /\ ingLock = NoTask /\ recLock = NoTask
    /\ \E u, v \in Urls : taskPc[u] = "panicked" /\ taskErr[v] \in LockErrs

\* C18: every URL that has a fragment in the recipes vector has its whole
\* ingredient block in the ingredients vector, and so does every URL whose
\* thread holds or has passed the recipes mutex step.
C18_IngredientsBeforeFragment ==
    \A u \in Urls :
        (FragsOf(u) # <<>> \/ taskPc[u] \in {"get_recipe", "download", "render"})
            => /\ ingIdx[u] = Len(all_ingredients(page[u]))
               /\ IngBlock(u) = all_ingredients(page[u])

\* C18 witness: get_urls has returned and the fragments in the recipes vector
\* come from fewer URLs than the items in the ingredients vector.
C18_Witness ==
    /\ orchPc = "done"
    /\ recipes # <<>>
    /\ \E u \in Urls : FragsOf(u) = <<>> /\ IngBlock(u) # <<>>
    /\ \A u \in Urls : FragsOf(u) # <<>> => IngBlock(u) # <<>>

====
